---- MODULE Spec2Model ----
(***************************************************************************)
(* Model of the scheduling engine of src/src/App.tsx (Mini Gantt):         *)
(* date helpers, topoSort, the visible window, the violation set, the drag *)
(* handlers (onMouseDownBar / onMove / onUp), toggleDep and autoSchedule.  *)
(*                                                                         *)
(* Dates.  A date string 'YYYY-MM-DD' is modelled by its day number, the   *)
(* count of calendar days since 1970-01-01 (negative before it).  A JS     *)
(* Date is modelled by its time value getTime(), counted in hours instead  *)
(* of milliseconds.  parseDate gives local midnight, so it depends on the  *)
(* time zone of the browser: tz is the offset of local time from UTC in    *)
(* hours (no daylight saving changes are modelled).                        *)
(*                                                                         *)
(* Task ids are unique in a list (they key the Maps of the code).          *)
(***************************************************************************)
EXTENDS Integers, Sequences, FiniteSets, TLC

VARIABLES
    tasks,       \* useLocalStorageState "mini-gantt/tasks": the task list
    zoom,        \* useLocalStorageState "mini-gantt/zoom"
    selectedId,  \* useState selectedId
    drag,        \* useState drag: NoDrag or the edit in progress
    tz,          \* environment: offset of local time from UTC, in hours
    order,       \* the order autoSchedule last obtained from topoSort
    lastOp,      \* history: the handler that ran last
    steps,       \* history: number of handlers run so far
    editTasks,   \* history: the task list when the current edit began
    lastX,       \* history: <<clientX>> of the edit's last pointer-move, or NoX
    movesOnly    \* history: only pointer-moves ran since the edit began

vars == <<tasks, zoom, selectedId, drag, tz, order, lastOp, steps,
          editTasks, lastX, movesOnly>>

(***************************************************************************)
(* Bounds of the model                                                     *)
(***************************************************************************)
MaxSteps == 4        \* handlers run in one behaviour of Spec
MaxRuns == 2         \* autoSchedule runs in one behaviour of SpecSched
MaxDeps == 2         \* length of a deps array in the graph family
MaxBack == 1         \* start days of the date family: -MaxBack .. 0
LongDuration == 25   \* a duration longer than the look-ahead margin

(***************************************************************************)
(* Program constants                                                       *)
(***************************************************************************)
ZOOMS == [day |-> 24, week |-> 10, month |-> 4]
HoursPerDay == 24
LookBack == 7
LookAhead == 21

NoDrag == [kind |-> "null"]
NoX == <<>>
NoTask == [id |-> "undefined"]
Kinds == {"move", "resize-left", "resize-right"}

(***************************************************************************)
(* Generic helpers: Array.prototype.reduce / forEach, Math.round           *)
(***************************************************************************)
RECURSIVE ReduceFrom(_, _, _, _)
ReduceFrom(Op(_, _), s, i, acc) ==
    IF i > Len(s) THEN acc ELSE ReduceFrom(Op, s, i + 1, Op(acc, s[i]))

Reduce(Op(_, _), s, acc) == ReduceFrom(Op, s, 1, acc)

\* Math.round(num / den) for den > 0: floor(num/den + 1/2), halves go up
MathRound(num, den) == (2 * num + den) \div (2 * den)

(***************************************************************************)
(* Date helpers                                                            *)
(***************************************************************************)
parseDate(d) == d * HoursPerDay - tz

fmt(t) == (t + tz) \div HoursPerDay

addDays(t, n) == t + n * HoursPerDay

diffInDays(a, b) ==
    MathRound(parseDate(fmt(a)) - parseDate(fmt(b)), HoursPerDay)

\* the slip of leaving out the test against the lower bound
clampDateStrNoLow(s, min, max) ==
    IF parseDate(s) > parseDate(max) THEN max ELSE s

clampDateStr(s, min, max) ==
    LET d == parseDate(s)
        lo == parseDate(min)
        hi == parseDate(max)
    IN  IF d < lo THEN min ELSE IF d > hi THEN max ELSE s

(***************************************************************************)
(* Lookups by id (Map.get, Array.find)                                     *)
(***************************************************************************)
HasId(ts, id) == \E i \in 1..Len(ts) : ts[i].id = id

IndexOf(ts, id) == CHOOSE i \in 1..Len(ts) : ts[i].id = id

GetTask(ts, id) == IF HasId(ts, id) THEN ts[IndexOf(ts, id)] ELSE NoTask

(***************************************************************************)
(* topoSort: Kahn's algorithm with a FIFO queue                            *)
(***************************************************************************)
TaskIdSeq(ts) == [i \in 1..Len(ts) |-> ts[i].id]

\* the slip of recording each edge from the task to its predecessor
EdgesOfReversed(ts, t) ==
    LET ps == SelectSeq(t.deps, LAMBDA p : HasId(ts, p))
    IN  [j \in 1..Len(ps) |-> <<t.id, ps[j]>>]

\* the slip of leaving out the test graph.has(p)
EdgesOfUnfiltered(ts, t) == [j \in 1..Len(t.deps) |-> <<t.deps[j], t.id>>]

\* the edges predecessor -> t.id that lines 73-80 add for one task, in order
EdgesOf(ts, t) ==
    LET ps == SelectSeq(t.deps, LAMBDA p : HasId(ts, p))
    IN  [j \in 1..Len(ps) |-> <<ps[j], t.id>>]

Edges(ts) == Reduce(LAMBDA acc, t : acc \o EdgesOf(ts, t), ts, <<>>)

\* graph.get(x): the successors pushed for x, in push order
Successors(ts, x) ==
    LET es == SelectSeq(Edges(ts), LAMBDA e : e[1] = x)
    IN  [j \in 1..Len(es) |-> es[j][2]]

InDegree(ts) ==
    LET es == Edges(ts)
    IN  [id \in {ts[i].id : i \in 1..Len(ts)} |->
            Cardinality({j \in 1..Len(es) : es[j][2] = id})]

\* lines 88-89: one successor of the dequeued node
RelaxOne(st, n) ==
    LET d == st.indeg[n] - 1
    IN  [indeg |-> [st.indeg EXCEPT ![n] = d],
         q |-> IF d = 0 THEN Append(st.q, n) ELSE st.q]

RECURSIVE KahnLoop(_, _, _)
KahnLoop(ts, st, out) ==
    IF st.q = <<>> THEN out
    ELSE LET x == Head(st.q)
             st1 == [indeg |-> st.indeg, q |-> Tail(st.q)]
         IN  KahnLoop(ts, Reduce(RelaxOne, Successors(ts, x), st1),
                      Append(out, x))

\* the slip of returning the dequeue sequence without the length test
topoSortPartial(ts) ==
    LET ids == TaskIdSeq(ts)
        indeg == InDegree(ts)
        q == SelectSeq(ids, LAMBDA id : indeg[id] = 0)
    IN  KahnLoop(ts, [indeg |-> indeg, q |-> q], <<>>)

topoSort(ts) ==
    LET ids == TaskIdSeq(ts)
        indeg == InDegree(ts)
        q == SelectSeq(ids, LAMBDA id : indeg[id] = 0)
        out == KahnLoop(ts, [indeg |-> indeg, q |-> q], <<>>)
    IN  IF Len(out) = Len(ids) THEN out ELSE ids

(***************************************************************************)
(* The visible window (tasks is never empty in this model)                 *)
(***************************************************************************)
\* the slip of taking the first task's start without the reduce
minDateStrFirst(ts) == fmt(addDays(parseDate(ts[1].start), 0 - LookBack))

minDateStr(ts) ==
    LET min == Reduce(LAMBDA acc, t :
                        IF parseDate(t.start) < acc THEN parseDate(t.start)
                        ELSE acc,
                      ts, parseDate(ts[1].start))
    IN  fmt(addDays(min, 0 - LookBack))

maxDateStr(ts) ==
    LET max == Reduce(LAMBDA acc, t :
                        IF parseDate(t.end) > acc THEN parseDate(t.end)
                        ELSE acc,
                      ts, parseDate(ts[1].end))
    IN  fmt(addDays(max, LookAhead))

dateToX(s, minDate, dayWidth) == diffInDays(parseDate(s), minDate) * dayWidth

\* the slip of dividing by the day width of the "day" zoom at every zoom
xToDateDayZoom(x, minDate, dayWidth) ==
    fmt(addDays(minDate, MathRound(x, ZOOMS["day"])))

xToDate(x, minDate, dayWidth) == fmt(addDays(minDate, MathRound(x, dayWidth)))

(***************************************************************************)
(* The violation set                                                       *)
(***************************************************************************)
violations(ts) ==
    LET latestEnd(t) ==
            Reduce(LAMBDA acc, pid :
                     LET p == GetTask(ts, pid)
                     IN  IF p = NoTask THEN acc
                         ELSE IF parseDate(p.end) > acc THEN parseDate(p.end)
                         ELSE acc,
                   t.deps, 0)
    IN  {ts[i].id : i \in {j \in 1..Len(ts) :
            latestEnd(ts[j]) > 0 /\ parseDate(ts[j].start) < latestEnd(ts[j])}}

(***************************************************************************)
(* autoSchedule                                                            *)
(***************************************************************************)
\* the slip of reading predecessors from the input list, not the working copy
lookupPredStale(next, orig, pid) ==
    IF HasId(orig, pid) THEN GetTask(orig, pid) ELSE GetTask(next, pid)

\* line 250: nextMap.get(pid) || idToTask.get(pid)
lookupPred(next, orig, pid) ==
    IF HasId(next, pid) THEN GetTask(next, pid) ELSE GetTask(orig, pid)

\* the slip of snapping a task to its latest predecessor end in both
\* directions: the fold starts below every date and any difference moves it
scheduleOneSnap(next, orig, id, min, max) ==
    LET i == IndexOf(next, id)
        t == next[i]
        duration == diffInDays(parseDate(t.end), parseDate(t.start))
        floor == parseDate(min)
        latestEnd ==
            Reduce(LAMBDA acc, pid :
                     LET p == lookupPred(next, orig, pid)
                     IN  IF p = NoTask THEN acc
                         ELSE IF parseDate(p.end) > acc THEN parseDate(p.end)
                         ELSE acc,
                   t.deps, floor)
    IN  IF latestEnd > floor /\ latestEnd # parseDate(t.start)
        THEN [next EXCEPT ![i] =
                [t EXCEPT !.start = clampDateStr(fmt(addDays(latestEnd, 0)), min, max),
                          !.end = clampDateStr(fmt(addDays(latestEnd, duration)), min, max)]]
        ELSE next

\* lines 247-260: the body of order.forEach for one id
scheduleOne(next, orig, id, min, max) ==
    LET i == IndexOf(next, id)
        t == next[i]
        duration == diffInDays(parseDate(t.end), parseDate(t.start))
        latestEnd ==
            Reduce(LAMBDA acc, pid :
                     LET p == lookupPred(next, orig, pid)
                     IN  IF p = NoTask THEN acc
                         ELSE IF parseDate(p.end) > acc THEN parseDate(p.end)
                         ELSE acc,
                   t.deps, parseDate(t.start))
    IN  IF latestEnd > parseDate(t.start)
        THEN [next EXCEPT ![i] =
                [t EXCEPT !.start = clampDateStr(fmt(addDays(latestEnd, 0)), min, max),
                          !.end = clampDateStr(fmt(addDays(latestEnd, duration)), min, max)]]
        ELSE next

\* the slip of returning the tasks in the order they were processed
autoScheduleSorted(ts) ==
    LET min == minDateStr(ts)
        max == maxDateStr(ts)
        ord == topoSort(ts)
        out == Reduce(LAMBDA next, id : scheduleOne(next, ts, id, min, max),
                      ord, ts)
    IN  [k \in 1..Len(ord) |-> GetTask(out, ord[k])]

autoSchedule(ts) ==
    LET min == minDateStr(ts)
        max == maxDateStr(ts)
    IN  Reduce(LAMBDA next, id : scheduleOne(next, ts, id, min, max),
               topoSort(ts), ts)

(***************************************************************************)
(* The drag reducer: what onMove returns for the task being edited         *)
(***************************************************************************)
\* lines 167-169: the shifted start and end before clamping
moveRaw(d, ddays, min, dayWidth) ==
    LET minDate == parseDate(min)
        span == diffInDays(parseDate(d.origEnd), parseDate(d.origStart))
        ns == xToDate(dateToX(d.origStart, minDate, dayWidth) + ddays * dayWidth,
                      minDate, dayWidth)
    IN  [ns |-> ns, ne |-> fmt(addDays(parseDate(ns), span))]

\* the slip of writing only the start back
moveTaskKeepsEnd(t, d, ddays, min, max, dayWidth) ==
    [t EXCEPT !.start = clampDateStr(moveRaw(d, ddays, min, dayWidth).ns, min, max)]

\* lines 167-172
moveTask(t, d, ddays, min, max, dayWidth) ==
    LET raw == moveRaw(d, ddays, min, dayWidth)
    IN  [t EXCEPT !.start = clampDateStr(raw.ns, min, max),
                  !.end = clampDateStr(raw.ne, min, max)]

\* lines 174-178
resizeLeftTask(t, d, ddays, min, max, dayWidth) ==
    LET minDate == parseDate(min)
        ns0 == xToDate(dateToX(d.origStart, minDate, dayWidth) + ddays * dayWidth,
                       minDate, dayWidth)
        ne == d.origEnd
        ns == IF parseDate(ns0) >= addDays(parseDate(ne), 0 - 1)
              THEN fmt(addDays(parseDate(ne), 0 - 1)) ELSE ns0
    IN  [t EXCEPT !.start = clampDateStr(ns, min, max)]

\* lines 180-184
resizeRightTask(t, d, ddays, min, max, dayWidth) ==
    LET minDate == parseDate(min)
        ne0 == xToDate(dateToX(d.origEnd, minDate, dayWidth) + ddays * dayWidth,
                       minDate, dayWidth)
        ns == d.origStart
        ne == IF parseDate(ne0) <= addDays(parseDate(ns), 1)
              THEN fmt(addDays(parseDate(ns), 1)) ELSE ne0
    IN  [t EXCEPT !.end = clampDateStr(ne, min, max)]

\* the slip of leaving out the test t.id !== drag.id
onMoveListEveryTask(ts, d, clientX, dayWidth) ==
    LET ddays == MathRound(clientX - d.startX, dayWidth)
        min == minDateStr(ts)
        max == maxDateStr(ts)
    IN  [i \in 1..Len(ts) |->
            IF d.kind = "move"
            THEN moveTask(ts[i], d, ddays, min, max, dayWidth)
            ELSE IF d.kind = "resize-left"
                 THEN resizeLeftTask(ts[i], d, ddays, min, max, dayWidth)
            ELSE resizeRightTask(ts[i], d, ddays, min, max, dayWidth)]

\* lines 162-186: the list setTasks installs for a pointer-move at clientX
\* during the edit d, with the window and day width of the current render
onMoveList(ts, d, clientX, dayWidth) ==
    LET dx == clientX - d.startX
        ddays == MathRound(dx, dayWidth)
        min == minDateStr(ts)
        max == maxDateStr(ts)
    IN  [i \in 1..Len(ts) |->
            IF ts[i].id # d.id THEN ts[i]
            ELSE IF d.kind = "move"
                 THEN moveTask(ts[i], d, ddays, min, max, dayWidth)
            ELSE IF d.kind = "resize-left"
                 THEN resizeLeftTask(ts[i], d, ddays, min, max, dayWidth)
            ELSE resizeRightTask(ts[i], d, ddays, min, max, dayWidth)]

\* lines 237-238
toggleDepList(ts, from, to) ==
    [i \in 1..Len(ts) |->
        IF ts[i].id # to THEN ts[i]
        ELSE IF \E j \in 1..Len(ts[i].deps) : ts[i].deps[j] = from
             THEN [ts[i] EXCEPT !.deps = SelectSeq(@, LAMBDA x : x # from)]
             ELSE [ts[i] EXCEPT !.deps = Append(@, from)]]

(***************************************************************************)
(* Inputs                                                                  *)
(***************************************************************************)
Task(id, start, end, deps) ==
    [id |-> id, name |-> id, start |-> start, end |-> end, deps |-> deps]

TZOffsets == {0 - 5, 0, 9}
DownXs == {100}
Displacements == {0 - 720, 0 - 13, 0 - 12, 0, 12, 13, 720}
MoveXs == {100 + dx : dx \in Displacements}

\* task lists of the interactive specification
EditLists ==
    {<<Task("A", 0, ea, <<>>), Task("B", 3, eb, db)>> :
        ea \in {0, 10}, eb \in {3, 3 + LongDuration}, db \in {<<>>, <<"A">>}}

\* deps arrays over the ids of the list and one id of no task, with
\* duplicates, up to MaxDeps entries (listed in one order of the ids)
DepIds == <<"A", "B", "C", "Z">>
DepLists ==
    UNION {{[j \in 1..n |-> DepIds[f[j]]] :
              f \in {g \in [1..n -> 1..Len(DepIds)] :
                        \A j \in 1..n : \A k \in j..n : g[j] <= g[k]}} :
           n \in 0..MaxDeps}

\* graph family: every combination of deps arrays, fixed dates
GraphLists ==
    {<<Task("A", 0, LongDuration, da), Task("B", 0, 1, db),
       Task("C", 0 - 1, 0, dc)>> :
        da \in DepLists, db \in DepLists, dc \in DepLists}

\* date family: up to two predecessors among the other tasks, every
\* combination of start days and durations around 1970-01-01
OtherDeps(p, q) == {<<>>, <<p>>, <<q>>, <<p, q>>}
StartDays == (0 - MaxBack)..0
Durations == {0, 1, LongDuration}
DateLists ==
    {<<Task("A", x[1], x[1] + x[2], x[7]), Task("B", x[3], x[3] + x[4], x[8]),
       Task("C", x[5], x[5] + x[6], x[9])>> :
        x \in StartDays \X Durations \X StartDays \X Durations \X StartDays
              \X Durations \X OtherDeps("B", "C") \X OtherDeps("A", "C")
              \X OtherDeps("A", "B")}

(***************************************************************************)
(* State machine                                                           *)
(***************************************************************************)
TypeOK ==
    /\ Len(tasks) > 0
    /\ zoom \in DOMAIN ZOOMS
    /\ drag = NoDrag \/ drag.kind \in Kinds
    /\ steps \in 0..MaxSteps

InitCommon ==
    /\ selectedId = "null"
    /\ drag = NoDrag
    /\ order = <<>>
    /\ lastOp = "init"
    /\ steps = 0
    /\ editTasks = <<>>
    /\ lastX = NoX
    /\ movesOnly = FALSE

Init ==
    /\ tasks \in EditLists
    /\ zoom \in DOMAIN ZOOMS
    /\ tz = 0
    /\ InitCommon

InitSched ==
    /\ \/ tasks \in GraphLists /\ tz = 0
       \/ tasks \in DateLists /\ tz \in TZOffsets
    /\ zoom = "day"
    /\ InitCommon

\* lines 152-157
MouseDownBar(id, kind, clientX) ==
    /\ steps < MaxSteps
    /\ HasId(tasks, id)
    /\ LET task == GetTask(tasks, id)
       IN  drag' = [id |-> id, kind |-> kind, startX |-> clientX,
                    origStart |-> task.start, origEnd |-> task.end]
    /\ selectedId' = id
    /\ editTasks' = tasks
    /\ lastX' = NoX
    /\ movesOnly' = TRUE
    /\ lastOp' = "down"
    /\ steps' = steps + 1
    /\ UNCHANGED <<tasks, zoom, tz, order>>

\* lines 160-187
OnMove(clientX) ==
    /\ steps < MaxSteps
    /\ IF drag = NoDrag
       THEN UNCHANGED <<tasks, lastX>>
       ELSE /\ tasks' = onMoveList(tasks, drag, clientX, ZOOMS[zoom])
            /\ lastX' = <<clientX>>
    /\ lastOp' = "move"
    /\ steps' = steps + 1
    /\ UNCHANGED <<zoom, selectedId, drag, tz, order, editTasks, movesOnly>>

\* the slip of restoring the list of the pointer-down on release
OnUpRollback ==
    /\ steps < MaxSteps
    /\ tasks' = IF drag # NoDrag THEN editTasks ELSE tasks
    /\ drag' = NoDrag
    /\ editTasks' = <<>>
    /\ lastX' = NoX
    /\ movesOnly' = FALSE
    /\ lastOp' = "up"
    /\ steps' = steps + 1
    /\ UNCHANGED <<zoom, selectedId, tz, order>>

\* line 188
OnUp ==
    /\ steps < MaxSteps
    /\ drag' = NoDrag
    /\ editTasks' = <<>>
    /\ lastX' = NoX
    /\ movesOnly' = FALSE
    /\ lastOp' = "up"
    /\ steps' = steps + 1
    /\ UNCHANGED <<tasks, zoom, selectedId, tz, order>>

\* lines 233-240
ToggleDep(from, to) ==
    /\ steps < MaxSteps
    /\ HasId(tasks, from) /\ HasId(tasks, to)
    /\ tasks' = IF from = to THEN tasks ELSE toggleDepList(tasks, from, to)
    /\ movesOnly' = FALSE
    /\ lastOp' = "toggle"
    /\ steps' = steps + 1
    /\ UNCHANGED <<zoom, selectedId, drag, tz, order, editTasks, lastX>>

\* lines 241-263
AutoSchedule ==
    /\ steps < MaxSteps
    /\ order' = topoSort(tasks)
    /\ tasks' = autoSchedule(tasks)
    /\ movesOnly' = FALSE
    /\ lastOp' = "auto"
    /\ steps' = steps + 1
    /\ UNCHANGED <<zoom, selectedId, drag, tz, editTasks, lastX>>

AutoScheduleAgain == steps < MaxRuns /\ AutoSchedule

Next ==
    \/ \E id \in {"A", "B"}, kind \in Kinds, x \in DownXs :
          MouseDownBar(id, kind, x)
    \/ \E x \in MoveXs : OnMove(x)
    \/ OnUp
    \/ \E from \in {"A", "B"}, to \in {"A", "B"} : ToggleDep(from, to)
    \/ AutoSchedule

NextSched == AutoScheduleAgain

\* line 347: the zoom buttons
SetZoom(z) ==
    /\ steps < MaxRuns
    /\ zoom' = z
    /\ movesOnly' = FALSE
    /\ lastOp' = "zoom"
    /\ steps' = steps + 1
    /\ UNCHANGED <<tasks, selectedId, drag, tz, order, editTasks, lastX>>

\* two-task lists of every combination of start days and durations
ZoomLists ==
    {<<Task("A", x[1], x[1] + x[2], <<>>), Task("B", x[3], x[3] + x[4], <<"A">>)>> :
        x \in StartDays \X Durations \X StartDays \X Durations}

InitZoom ==
    /\ tasks \in ZoomLists
    /\ zoom \in DOMAIN ZOOMS
    /\ tz \in TZOffsets
    /\ InitCommon

NextZoom ==
    \/ \E z \in DOMAIN ZOOMS : SetZoom(z)
    \/ AutoScheduleAgain

Spec == Init /\ [][Next]_vars

SpecZoom == InitZoom /\ [][NextZoom]_vars

\* the lists of the graph family whose deps name tasks of the list only
ClosedLists ==
    {ts \in GraphLists :
        \A i \in 1..Len(ts) : \A j \in 1..Len(ts[i].deps) :
            HasId(ts, ts[i].deps[j])}

InitGraph ==
    /\ tasks \in ClosedLists
    /\ zoom = "day"
    /\ tz = 0
    /\ InitCommon

SpecGraph == InitGraph /\ [][NextSched]_vars

SpecSched == InitSched /\ [][NextSched]_vars

(***************************************************************************)
(* Vocabulary of the properties                                            *)
(***************************************************************************)
Indices == 1..Len(tasks)

\* p is a resolvable predecessor of ts[i]: listed in its deps and in the list
IsPred(ts, p, i) == HasId(ts, p) /\ \E j \in 1..Len(ts[i].deps) : ts[i].deps[j] = p

PredIndices(ts, i) == {k \in 1..Len(ts) : IsPred(ts, ts[k].id, i)}

\* k reaches i along at least one and at most n predecessor edges
RECURSIVE ReachesIn(_, _, _, _)
ReachesIn(ts, k, i, n) ==
    /\ n > 0
    /\ \/ k \in PredIndices(ts, i)
       \/ \E m \in PredIndices(ts, i) : ReachesIn(ts, k, m, n - 1)

Cyclic(ts) == \E i \in 1..Len(ts) : ReachesIn(ts, i, i, Len(ts))

Acyclic(ts) == ~Cyclic(ts)

\* the violation set as the specification defines it, on calendar days
SpecViolations(ts) ==
    {ts[i].id : i \in {j \in 1..Len(ts) :
        \E k \in PredIndices(ts, j) : ts[j].start < ts[k].end}}

DurationOf(t) == t.end - t.start

Edited(ts) == GetTask(ts, drag.id)

(***************************************************************************)
(* C1: after one autoSchedule of an acyclic list whose tasks have          *)
(* start <= end, no task starts before the end of any of its resolvable    *)
(* predecessors, and the violation set is empty.                           *)
(***************************************************************************)
C1_AutoScheduleClearsViolations ==
    (lastOp = "auto" /\ Acyclic(tasks)) =>
        /\ SpecViolations(tasks) = {}
        /\ violations(tasks) = {}

\* a chain was pushed: j moved behind its predecessor, k behind the moved j
C1_Witness ==
    /\ lastOp = "auto" /\ steps = 1 /\ Acyclic(tasks)
    /\ \E j \in Indices, k \in Indices :
          /\ j \in PredIndices(tasks, k)
          /\ PredIndices(tasks, j) # {}
          /\ tasks[j].start > 0
          /\ tasks[k].start = tasks[j].end
          /\ tasks[k].start > tasks[j].start

(***************************************************************************)
(* C2: autoSchedule preserves end - start of every task (stated here for   *)
(* the acyclic lists, the inputs the scheduler gives its guarantees for).  *)
(***************************************************************************)
C2_DurationPreserved ==
    [][(lastOp' = "auto" /\ Acyclic(tasks)) =>
         \A i \in Indices : DurationOf(tasks'[i]) = DurationOf(tasks[i])]_vars

(***************************************************************************)
(* C3: the violation set is exactly the set of tasks that start strictly   *)
(* before the latest end among their resolvable predecessors, for every    *)
(* calendar date.                                                          *)
(***************************************************************************)
C3_ViolationSetExact == violations(tasks) = SpecViolations(tasks)

(***************************************************************************)
(* C4: during an edit in which only pointer-moves ran, the task list after *)
(* a pointer-move at x is the list a single pointer-move at x produces     *)
(* from the list the edit began with.                                      *)
(***************************************************************************)
C4_MoveDependsOnSnapshotOnly ==
    (drag # NoDrag /\ movesOnly /\ lastX # NoX) =>
        tasks = onMoveList(editTasks, drag, lastX[1], ZOOMS[zoom])

(***************************************************************************)
(* C5: every task has start <= end after any sequence of the commands.     *)
(***************************************************************************)
C5_StartLeEnd == \A i \in Indices : tasks[i].start <= tasks[i].end

(***************************************************************************)
(* C6: after a pointer-move in a resize mode the edited task has           *)
(* end - start >= 1 day.                                                   *)
(***************************************************************************)
C6_ResizeMinimumDuration ==
    (lastOp = "move" /\ drag # NoDrag /\ drag.kind # "move") =>
        DurationOf(Edited(tasks)) >= 1

(***************************************************************************)
(* C7: on an acyclic list a second autoSchedule, with the window derived   *)
(* from the result of the first, changes nothing.                          *)
(***************************************************************************)
C7_AutoScheduleIdempotent ==
    [][(lastOp = "auto" /\ lastOp' = "auto" /\ Acyclic(tasks)) =>
          tasks' = tasks]_vars

\* two runs were made and the first one had pushed a task
C7_Witness ==
    /\ lastOp = "auto" /\ steps = 2 /\ Acyclic(tasks)
    /\ \E i \in Indices : tasks[i].start > 0

(***************************************************************************)
(* C8: for an acyclic list topoSort returns every id once, each            *)
(* predecessor at a strictly smaller index than its successors.            *)
(***************************************************************************)
C8_TopologicalOrder ==
    (lastOp = "auto" /\ Acyclic(tasks)) =>
        /\ Len(order) = Len(tasks)
        /\ \A i \in Indices : \E a \in 1..Len(order) : order[a] = tasks[i].id
        /\ \A i \in Indices : \A k \in PredIndices(tasks, i) :
              \A a \in 1..Len(order), b \in 1..Len(order) :
                 (order[a] = tasks[k].id /\ order[b] = tasks[i].id) => a < b

\* an acyclic list whose list order is no topological order
C8_Witness ==
    /\ lastOp = "auto" /\ Acyclic(tasks)
    /\ order # TaskIdSeq(tasks)
    /\ \E i \in Indices : Cardinality(PredIndices(tasks, i)) = 2

(***************************************************************************)
(* C9: for a list with a cycle (a self-dependency included) topoSort       *)
(* returns the ids in list order, all of them.                             *)
(***************************************************************************)
C9_CycleFallback ==
    (lastOp = "auto" /\ Cyclic(tasks)) => order = TaskIdSeq(tasks)

\* a self-dependency beside a task Kahn's loop does dequeue
C9_Witness ==
    /\ lastOp = "auto" /\ Cyclic(tasks)
    /\ \E i \in Indices : i \in PredIndices(tasks, i)
    /\ \E i \in Indices : PredIndices(tasks, i) = {}

(***************************************************************************)
(* C10: a pointer-move in move mode that clamps neither the shifted start  *)
(* nor the shifted end leaves end - start equal to origEnd - origStart.    *)
(***************************************************************************)
MoveUnclamped ==
    LET min == minDateStr(tasks)
        max == maxDateStr(tasks)
        raw == moveRaw(drag, MathRound(lastX'[1] - drag.startX, ZOOMS[zoom]),
                       min, ZOOMS[zoom])
    IN  /\ clampDateStr(raw.ns, min, max) = raw.ns
        /\ clampDateStr(raw.ne, min, max) = raw.ne

C10_MovePreservesDuration ==
    [][(lastOp' = "move" /\ drag # NoDrag /\ drag.kind = "move"
          /\ MoveUnclamped) =>
          DurationOf(Edited(tasks')) = drag.origEnd - drag.origStart]_vars

\* a task of several days was moved by whole days and kept its length
C10_Witness ==
    /\ lastOp = "move" /\ drag # NoDrag /\ drag.kind = "move"
    /\ drag.origEnd > drag.origStart
    /\ Edited(tasks).start # drag.origStart
    /\ DurationOf(Edited(tasks)) = drag.origEnd - drag.origStart

(***************************************************************************)
(* C11: a pointer-move in move mode whose shifted start falls before the   *)
(* window's minimum date yields start = minDate and end >= start; the      *)
(* resulting duration lies between 0 and the duration of the snapshot.     *)
(***************************************************************************)
MoveStartBelowMin ==
    moveRaw(drag, MathRound(lastX'[1] - drag.startX, ZOOMS[zoom]),
            minDateStr(tasks), ZOOMS[zoom]).ns < minDateStr(tasks)

Between(x, a, b) == (a <= x /\ x <= b) \/ (b <= x /\ x <= a)

C11_MoveClampsAtMin ==
    [][(lastOp' = "move" /\ drag # NoDrag /\ drag.kind = "move"
          /\ MoveStartBelowMin) =>
          /\ Edited(tasks').start = minDateStr(tasks)
          /\ Edited(tasks').end >= Edited(tasks').start
          /\ Between(DurationOf(Edited(tasks')), 0,
                     drag.origEnd - drag.origStart)]_vars

\* the start was clamped to the window's minimum and the end was not: the
\* task kept a part of its duration
C11_Witness ==
    /\ lastOp = "move" /\ drag # NoDrag /\ drag.kind = "move" /\ movesOnly
    /\ Edited(tasks).start = minDateStr(editTasks)
    /\ Edited(tasks).start < drag.origStart - LookBack
    /\ DurationOf(Edited(tasks)) > 0
    /\ DurationOf(Edited(tasks)) < drag.origEnd - drag.origStart

(***************************************************************************)
(* C12: for every origin date, every zoom and every date d,                *)
(* xToDate(dateToX(d)) = d.  The origins and the dates are the window      *)
(* bounds and the task dates of the state, the day width is that of the    *)
(* state's zoom, the time zone that of the state.                          *)
(***************************************************************************)
DatesOfState ==
    {minDateStr(tasks), maxDateStr(tasks)}
        \cup {tasks[i].start : i \in Indices} \cup {tasks[i].end : i \in Indices}

C12_OffsetRoundTrip ==
    LET D == DatesOfState
        w == ZOOMS[zoom]
    IN  \A o \in D : \A d \in D :
            xToDate(dateToX(d, parseDate(o), w), parseDate(o), w) = d

\* dates on both sides of the origin, at a positive and a negative offset,
\* in a time zone whose local midnight is not a UTC midnight
C12_Witness ==
    /\ tz # 0
    /\ lastOp = "zoom" /\ zoom = "week"
    /\ \E d \in DatesOfState :
          /\ dateToX(d, parseDate(maxDateStr(tasks)), ZOOMS[zoom]) < 0
          /\ dateToX(d, parseDate(minDateStr(tasks)), ZOOMS[zoom]) > 0

(***************************************************************************)
(* C13: autoSchedule moves no task earlier: every task's start and end in  *)
(* the output are >= its start and end in the input.                       *)
(***************************************************************************)
C13_AutoScheduleNeverEarlier ==
    [][lastOp' = "auto" =>
         \A i \in Indices :
            /\ tasks'[i].start >= tasks[i].start
            /\ tasks'[i].end >= tasks[i].end]_vars

\* one run pushed a task whose end was then cut at the window's maximum,
\* beside a task that starts after the end of its predecessor
C13_Witness ==
    /\ lastOp = "auto" /\ steps = 1
    /\ \E i \in Indices :
          /\ tasks[i].start > 0
          /\ DurationOf(tasks[i]) > 1 /\ DurationOf(tasks[i]) < LongDuration
    /\ \E i \in Indices : \E k \in PredIndices(tasks, i) :
          tasks[i].start > tasks[k].end

(***************************************************************************)
(* C14 as stated: the window's origin is the minimum start among the tasks *)
(* that have no predecessors, minus 7 days, and its end is the maximum end *)
(* among all tasks plus 21 days.                                           *)
(***************************************************************************)
MinOf(S) == CHOOSE x \in S : \A y \in S : x <= y

MaxOf(S) == CHOOSE x \in S : \A y \in S : x >= y

PredecessorFree == {i \in Indices : PredIndices(tasks, i) = {}}

C14_WindowFromPredecessorFree ==
    PredecessorFree # {} =>
        /\ minDateStr(tasks) = MinOf({tasks[i].start : i \in PredecessorFree}) - 7
        /\ maxDateStr(tasks) = MaxOf({tasks[i].end : i \in Indices}) + 21

(***************************************************************************)
(* C14 as amended: the window's origin is the minimum start among all      *)
(* tasks minus 7 days and its end is the maximum end among all tasks plus  *)
(* 21 days.                                                                *)
(***************************************************************************)
C14_WindowFromAllTasks ==
    /\ minDateStr(tasks) = MinOf({tasks[i].start : i \in Indices}) - 7
    /\ maxDateStr(tasks) = MaxOf({tasks[i].end : i \in Indices}) + 21

\* a task with a predecessor starts before every task without one, and is
\* not the first of the list
C14_Witness ==
    /\ PredecessorFree # {}
    /\ \E i \in Indices \ PredecessorFree :
          /\ i > 1
          /\ \A k \in Indices \ {i} : tasks[i].start < tasks[k].start

(***************************************************************************)
(* C15: autoSchedule takes no effect while an edit is in progress (between *)
(* a pointer-down on a task and the following pointer-up).                 *)
(***************************************************************************)
C15_NoAutoScheduleWhileEditing ==
    [][(lastOp' = "auto" /\ drag # NoDrag) => tasks' = tasks]_vars

(***************************************************************************)
(* C16: autoSchedule leaves unchanged every task without a resolvable      *)
(* predecessor and every task that, when its turn comes, starts at or      *)
(* after the end of each of its resolvable predecessors in the working     *)
(* copy; a list without violation is returned as it is; no task's id,      *)
(* name, deps or position changes.                                         *)
(***************************************************************************)
\* the working copy when the task at index i is about to be processed
WorkingCopyAt(ts, ord, i) ==
    LET k == CHOOSE k \in 1..Len(ord) : ord[k] = ts[i].id
        min == minDateStr(ts)
        max == maxDateStr(ts)
    IN  IF k = 1 THEN ts
        ELSE Reduce(LAMBDA next, id : scheduleOne(next, ts, id, min, max),
                    SubSeq(ord, 1, k - 1), ts)

C16_AutoScheduleFrame ==
    [][lastOp' = "auto" =>
         /\ Len(tasks') = Len(tasks)
         /\ \A i \in Indices :
               /\ tasks'[i].id = tasks[i].id
               /\ tasks'[i].name = tasks[i].name
               /\ tasks'[i].deps = tasks[i].deps
               /\ PredIndices(tasks, i) = {} => tasks'[i] = tasks[i]
               /\ LET wc == WorkingCopyAt(tasks, order', i)
                  IN  (\A k \in PredIndices(tasks, i) : wc[i].start >= wc[k].end)
                         => tasks'[i] = tasks[i]
         /\ SpecViolations(tasks) = {} => tasks' = tasks]_vars

\* a run that pushed one task and left alone another that starts at or after
\* the ends of its predecessors, on a list whose order is not the list's
C16_Witness ==
    /\ lastOp = "auto" /\ steps = 1
    /\ order # TaskIdSeq(tasks)
    /\ \E i \in Indices, k \in Indices :
          /\ i # k
          /\ PredIndices(tasks, k) # {}
          /\ tasks[k].start > 0
          /\ PredIndices(tasks, i) # {}
          /\ tasks[i].start <= 0
          /\ \A m \in PredIndices(tasks, i) : tasks[i].start >= tasks[m].end

(***************************************************************************)
(* C17: a pointer-move during an edit changes at most the start and end of *)
(* the edited task: the other tasks, the edited task's id, name and deps,  *)
(* the order and the length of the list stay; a pointer-move with no edit  *)
(* in progress changes nothing.                                            *)
(***************************************************************************)
C17_PointerMoveFrame ==
    [][lastOp' = "move" =>
         /\ Len(tasks') = Len(tasks)
         /\ \A i \in Indices :
               /\ tasks'[i].id = tasks[i].id
               /\ tasks'[i].name = tasks[i].name
               /\ tasks'[i].deps = tasks[i].deps
               /\ (drag = NoDrag \/ tasks[i].id # drag.id) => tasks'[i] = tasks[i]
         /\ drag = NoDrag => tasks' = tasks]_vars

\* a move that changed the edited task beside a task with predecessors
C17_Witness ==
    /\ lastOp = "move" /\ drag # NoDrag /\ movesOnly
    /\ Edited(tasks) # Edited(editTasks)
    /\ \E i \in Indices : tasks[i].id # drag.id /\ tasks[i].deps # <<>>

(***************************************************************************)
(* C18: inserting into any task's deps, at any place, an id of no task     *)
(* changes neither the topological order nor the violation set nor the     *)
(* dates autoSchedule returns (the output differs by the inserted id       *)
(* only).                                                                  *)
(***************************************************************************)
InsertAt(s, j, x) == SubSeq(s, 1, j) \o <<x>> \o SubSeq(s, j + 1, Len(s))

WithDanglingDep(ts, i, j) == [ts EXCEPT ![i].deps = InsertAt(@, j, "Z")]

C18_DanglingDepInert ==
    [][lastOp' = "auto" =>
        \A i \in Indices : \A j \in 0..Len(tasks[i].deps) :
            LET ts2 == WithDanglingDep(tasks, i, j)
            IN  /\ ~HasId(tasks, "Z")
                /\ topoSort(ts2) = order'
                /\ violations(ts2) = violations(tasks)
                /\ autoSchedule(ts2) = WithDanglingDep(tasks', i, j)]_vars

\* autoSchedule has run on a list whose topological order is not the list
\* order and whose deps hold no dangling id yet, and has pushed a task
C18_Witness ==
    /\ lastOp = "auto"
    /\ order # TaskIdSeq(tasks)
    /\ \E i \in Indices : tasks[i].start > 0
    /\ \E i \in Indices : Len(tasks[i].deps) = MaxDeps
    /\ \A i \in Indices : \A j \in 1..Len(tasks[i].deps) : tasks[i].deps[j] # "Z"
(***************************************************************************)
(* C19: a pointer release ends in Idle (drag = null) and leaves the task   *)
(* list as it was at the release, which is what the last pointer-move set  *)
(* and not the list of the pointer-down; a pointer-move in Idle leaves the *)
(* task list unchanged; and Idle is left by a pointer-down only.           *)
(***************************************************************************)
C19_ReleaseCommits ==
    [][/\ lastOp' = "up" => drag' = NoDrag /\ tasks' = tasks
       /\ (lastOp' = "move" /\ drag = NoDrag) =>
              tasks' = tasks /\ drag' = NoDrag
       /\ (drag = NoDrag /\ drag' # NoDrag) => lastOp' = "down"]_vars

\* a pointer-move in Idle, after an edit that took A before 1970-01-01
\* (from its initial start 0) was released
C19_Witness ==
    /\ lastOp = "move"
    /\ drag = NoDrag
    /\ lastX = NoX
    /\ tasks[1].start < 0

(***************************************************************************)
(* C20: for every task list, with cycles, self-dependencies, duplicate     *)
(* deps entries and dangling predecessor ids, topoSort is defined and      *)
(* holds each task id exactly once, and autoSchedule is defined and        *)
(* returns a list of the same length with the same id at every position.   *)
(* (Both are evaluated for every list the specification reaches: an        *)
(* evaluation that did not end would stop the check.)                      *)
(***************************************************************************)
Occurrences(s, x) == Cardinality({k \in 1..Len(s) : s[k] = x})

C20_TotalOnEveryGraph ==
    [][lastOp' = "auto" =>
        /\ Len(order') = Len(tasks)
        /\ \A i \in Indices : Occurrences(order', tasks[i].id) = 1
        /\ Len(tasks') = Len(tasks)
        /\ \A i \in Indices : tasks'[i].id = tasks[i].id]_vars

\* autoSchedule has run on a list with a cycle of two tasks, a
\* self-dependency listed twice and a dangling id
C20_Witness ==
    /\ lastOp = "auto"
    /\ \E i \in Indices : \E k \in Indices :
           i # k /\ IsPred(tasks, tasks[i].id, k) /\ IsPred(tasks, tasks[k].id, i)
    /\ \E i \in Indices :
           Occurrences(tasks[i].deps, tasks[i].id) = 2
    /\ \E i \in Indices : \E j \in 1..Len(tasks[i].deps) :
           ~HasId(tasks, tasks[i].deps[j])

(***************************************************************************)
(* C21: a pointer-move whose displacement rounds to zero days, in an edit  *)
(* whose snapshot has origStart <= origEnd (origStart = origEnd included), *)
(* leaves the edited task with start = origStart and end = origEnd, in     *)
(* each of the modes move, resize-left and resize-right.                   *)
(***************************************************************************)
ZeroDisplacement ==
    /\ lastOp' = "move"
    /\ drag # NoDrag
    /\ drag.origStart <= drag.origEnd
    /\ MathRound(lastX'[1] - drag.startX, ZOOMS[zoom]) = 0

C21_ZeroDisplacementKeepsSnapshot ==
    [][ZeroDisplacement =>
        /\ Edited(tasks').start = drag.origStart
        /\ Edited(tasks').end = drag.origEnd]_vars

====
